---- MODULE Spec2Model ----
(***************************************************************************)
(* Model of src/app.py: a Streamlit script that chunks the text of an      *)
(* uploaded PDF, collects KeyBERT keyphrases per chunk, counts them,       *)
(* resolves every distinct keyphrase with the Wikidata entity search and   *)
(* shows either the table of matches (RESULTS) or the statements of one    *)
(* selected entity (DETAIL).                                                *)
(*                                                                         *)
(* Strings that the code splits or joins are sequences of one-character    *)
(* strings.  HTTP responses, the PDF and the KeyBERT output are inputs     *)
(* drawn from bounded sets.  Every request is assumed to obtain an HTTP    *)
(* response (status and body); transport-level exceptions of requests.get  *)
(* are outside the model.  A match of a search response carries an id and  *)
(* a label, as the search interface states.                                *)
(***************************************************************************)
EXTENDS Integers, Sequences, FiniteSets, TLC

\* ------------------------------------------------------------------ bounds
MaxPages == 2        \* pages of an uploaded PDF
MaxPageLen == 3      \* characters of text on one page
MaxChunkSize == 3    \* chunk sizes tried on the chunker alone
MaxLists == 3        \* per-chunk keyphrase lists aggregated on their own
MaxMatches == 2      \* entries of the "search" list of one search response
MaxBindings == 2     \* bindings of one SPARQL response
\* Stands for the default chunk_size=500 (app.py:13) that the processing run
\* uses; scaled down so that a document of a few words spans several chunks.
RunChunkSize == 2

\* ----------------------------------------------------------------- domains
None == "None"                 \* Python None for string-valued fields
NoText == <<"None">>           \* page.extract_text() returning None
Whitespace == {" "}
Chars == {"a", " "}
Phrases == {"albert einstein", "theory of relativity"}
QIDs == {"Q937", "Q43514"}

Min(a, b) == IF a < b THEN a ELSE b

RECURSIVE SeqsUpTo(_, _)
SeqsUpTo(S, n) ==
    IF n = 0 THEN {<<>>}
    ELSE LET shorter == SeqsUpTo(S, n - 1)
         IN  shorter \cup {Append(s, x) : s \in {t \in shorter : Len(t) = n - 1}, x \in S}

Range(s) == {s[k] : k \in 1..Len(s)}

RECURSIVE Concat(_)
Concat(ss) == IF ss = <<>> THEN <<>> ELSE Head(ss) \o Concat(Tail(ss))

PageTexts == SeqsUpTo(Chars, MaxPageLen) \cup {NoText}
\* an uploaded PDF: the text PdfReader extracts from each of its pages
Docs == SeqsUpTo(PageTexts, MaxPages)

VARIABLES
    \* st.session_state
    selected_qid, results,
    \* position and locals of the script run started by "Start Processing"; a
    \* local is kept while the script still reads it (chunks up to the end of
    \* the collection loop, all_entities up to the success message)
    pc, chunks, all_entities, counts, idx, run_results, search_calls,
    \* what the last completed script run put on the page
    screen, shown_rows, stmt_query, detail, props, warning,
    \* the response of the latest entity search of the run
    last_resp,
    \* history: the last user action and its argument, the table shown when
    \* "Query props" was clicked, the screen shown when "Start Processing" was
    \* clicked, the last selection that was cleared
    last_action, shown_at_inspect, screen_at_start, prev_selected,
    \* the functions applied on their own
    c_file, c_size, c_out,
    a_lists, a_out,
    s_resp, s_out

session_vars == <<selected_qid, results>>
run_vars == <<pc, chunks, all_entities, counts, idx, run_results, search_calls, last_resp>>
page_vars == <<screen, shown_rows, stmt_query, detail, props, warning>>
hist_vars == <<last_action, shown_at_inspect, screen_at_start, prev_selected>>
app_vars == <<session_vars, run_vars, page_vars, hist_vars>>
chunk_vars == <<c_file, c_size, c_out>>
agg_vars == <<a_lists, a_out>>
stmt_vars == <<s_resp, s_out>>
vars == <<app_vars, chunk_vars, agg_vars, stmt_vars>>

\* ------------------------------------------------------------ Text Chunker
\* str.split() with no argument: runs of whitespace separate, no empty token
RECURSIVE SplitWs(_, _, _)
SplitWs(s, cur, acc) ==
    IF s = <<>> THEN (IF cur = <<>> THEN acc ELSE Append(acc, cur))
    ELSE IF Head(s) \in Whitespace
         THEN SplitWs(Tail(s), <<>>, IF cur = <<>> THEN acc ELSE Append(acc, cur))
         ELSE SplitWs(Tail(s), Append(cur, Head(s)), acc)

split(s) == SplitWs(s, <<>>, <<>>)

\* " ".join(parts)
RECURSIVE join(_)
join(parts) ==
    IF parts = <<>> THEN <<>>
    ELSE IF Len(parts) = 1 THEN parts[1]
    ELSE parts[1] \o <<" ">> \o join(Tail(parts))

\* page.extract_text() or ""
PageText(p) == IF p = NoText \/ p = <<>> THEN <<>> ELSE p

\* words[i:i+chunk_size] (0-based i, the slice clamps at the end of the list)
Slice(words, i, chunk_size) == SubSeq(words, i + 1, Min(i + chunk_size, Len(words)))

\* [" ".join(words[i:i+chunk_size]) for i in range(0, len(words), chunk_size)]
RECURSIVE ChunksFrom(_, _, _)
ChunksFrom(words, i, chunk_size) ==
    IF i >= Len(words) THEN <<>>
    ELSE <<join(Slice(words, i, chunk_size))>> \o ChunksFrom(words, i + chunk_size, chunk_size)

DocText(file) == join([k \in 1..Len(file) |-> PageText(file[k])])

\* a chunker that drops the last word of every full window
extract_text_from_pdf_short(file, chunk_size) ==
    LET words == split(DocText(file))
        RECURSIVE From(_)
        From(i) == IF i >= Len(words) THEN <<>>
                   ELSE <<join(SubSeq(words, i + 1, Min(i + chunk_size - 1, Len(words))))>>
                        \o From(i + chunk_size)
    IN  From(0)

extract_text_from_pdf(file, chunk_size) ==
    ChunksFrom(split(DocText(file)), 0, chunk_size)

InitChunk ==
    /\ c_file \in Docs
    /\ c_size \in 1..MaxChunkSize
    /\ c_out = [done |-> FALSE, chunks |-> <<>>]

ChunkCall ==
    /\ ~c_out.done
    /\ c_out' = [done |-> TRUE, chunks |-> extract_text_from_pdf(c_file, c_size)]
    /\ UNCHANGED <<c_file, c_size>>

\* ------------------------------------------------------ Keyphrase Extractor
top_n == 5

DupFree(l) == \A j, k \in 1..Len(l) : l[j] = l[k] => j = k

\* kw_model.extract_keywords(text, keyphrase_ngram_range=(1, 3), top_n=top_n):
\* the possible rankings, each a list of (keyphrase, position) pairs over the
\* distinct candidate phrases of the text, at most top_n long
kw_model_extract_keywords(text, n) ==
    {[k \in 1..Len(l) |-> <<l[k], k>>] :
        l \in {m \in SeqsUpTo(Phrases, Min(n, Cardinality(Phrases))) : DupFree(m)}}

\* [kw for kw, _ in keywords], for every ranking the model may return
extract_entities_keybert(text, n) ==
    {[k \in 1..Len(keywords) |-> keywords[k][1]] : keywords \in kw_model_extract_keywords(text, n)}

\* ----------------------------------------------------- Frequency Aggregator
\* all_entities = []; for chunk in chunks: all_entities.extend(lists[chunk])
CollectEntities(lists) == Concat(lists)

HasKey(c, e) == \E k \in 1..Len(c) : c[k].key = e

\* a counter that puts a new key in front of the others
CounterAdd_front(c, e) ==
    IF HasKey(c, e)
    THEN [k \in 1..Len(c) |-> IF c[k].key = e THEN [c[k] EXCEPT !.count = @ + 1] ELSE c[k]]
    ELSE <<[key |-> e, count |-> 1]>> \o c

\* one step of Counter.update: mapping[elem] = mapping.get(elem, 0) + 1, a new
\* key going to the end of the (insertion-ordered) dict
CounterAdd(c, e) ==
    IF HasKey(c, e)
    THEN [k \in 1..Len(c) |-> IF c[k].key = e THEN [c[k] EXCEPT !.count = @ + 1] ELSE c[k]]
    ELSE Append(c, [key |-> e, count |-> 1])

RECURSIVE CounterUpdate(_, _)
CounterUpdate(c, elems) ==
    IF elems = <<>> THEN c ELSE CounterUpdate(CounterAdd(c, Head(elems)), Tail(elems))

\* a counter that opens a new entry for every occurrence
Counter_per_occurrence(elems) == [k \in 1..Len(elems) |-> [key |-> elems[k], count |-> 1]]

\* Counter(all_entities), as the list of its items() in insertion order
Counter(elems) == CounterUpdate(<<>>, elems)

InitAgg ==
    /\ a_lists \in SeqsUpTo(extract_entities_keybert(<<>>, top_n), MaxLists)
    /\ a_out = [done |-> FALSE, counts |-> <<>>]

AggCall ==
    /\ ~a_out.done
    /\ a_out' = [done |-> TRUE, counts |-> Counter(CollectEntities(a_lists))]
    /\ UNCHANGED a_lists

\* ---------------------------------------------------------- Entity Resolver
Entities ==
    { [id |-> "Q937", label |-> "Albert Einstein"],
      [id |-> "Q43514", label |-> "theory of relativity"] }

\* a response of the wbsearchentities request: the status and what r.json()
\* makes of the body (json = FALSE: r.json() raises)
SearchBodies ==
    { [json |-> FALSE, has_search |-> FALSE, search |-> <<>>],
      [json |-> TRUE, has_search |-> FALSE, search |-> <<>>] }
    \cup {[json |-> TRUE, has_search |-> TRUE, search |-> m] : m \in SeqsUpTo(Entities, MaxMatches)}

\* every body with status 200; an error page and a body with a match with status 500
SearchResponses ==
    [status : {200}, body : SearchBodies]
    \cup [status : {500},
          body : {b \in SearchBodies : ~b.json \/ (b.has_search /\ Len(b.search) = 1)}]

\* the value of a search_wikidata call that returns None
NoMatch == <<>>

\* a resolver that keeps the last listed match
search_wikidata_last(query, r) ==
    IF r.status # 200 THEN NoMatch
    ELSE IF ~r.body.json THEN NoMatch
    ELSE IF r.body.has_search /\ r.body.search # <<>>
         THEN <<r.body.search[Len(r.body.search)].id, r.body.search[Len(r.body.search)].label>>
         ELSE NoMatch

\* search_wikidata(query) when the request is answered by r
search_wikidata(query, r) ==
    IF r.status # 200 THEN NoMatch
    ELSE IF ~r.body.json THEN NoMatch
    ELSE IF r.body.has_search /\ r.body.search # <<>>
         THEN <<r.body.search[1].id, r.body.search[1].label>>
         ELSE NoMatch

\* --------------------------------------------------------- Statement Fetcher
Absent == "Absent"             \* a variable the binding does not carry
AbsentURI == <<"Absent">>

RawRanks ==
    {"wikibase:NormalRank", "wikibase:PreferredRank", "wikibase:DeprecatedRank",
     "wikibase:OtherRank"}

\* BIND(IF(?statementRank = wikibase:NormalRank, "Normal", IF(... "Unknown")))
RankBIND(statementRank) ==
    IF statementRank = "wikibase:NormalRank" THEN "Normal"
    ELSE IF statementRank = "wikibase:PreferredRank" THEN "Preferred"
    ELSE IF statementRank = "wikibase:DeprecatedRank" THEN "Deprecated"
    ELSE "Unknown"

\* the variables of a solution other than the rank: all bound; no qualifier;
\* neither qualifier nor unit nor value label; empty property IRI; nothing bound
SolutionShapes ==
    { [property |-> <<"e", "/", "P">>, propertyLabel |-> "instance of",
       statementValueLabel |-> "human", statementValue |-> "Q5",
       qualifierPropertyLabel |-> "point in time", qualifierValueLabel |-> "1905",
       unitOfMeasureLabel |-> "metre"],
      [property |-> <<"e", "/", "P">>, propertyLabel |-> "instance of",
       statementValueLabel |-> "human", statementValue |-> "Q5",
       qualifierPropertyLabel |-> Absent, qualifierValueLabel |-> Absent,
       unitOfMeasureLabel |-> "metre"],
      [property |-> <<"P">>, propertyLabel |-> "instance of",
       statementValueLabel |-> Absent, statementValue |-> "Q5",
       qualifierPropertyLabel |-> Absent, qualifierValueLabel |-> Absent,
       unitOfMeasureLabel |-> Absent],
      [property |-> <<>>, propertyLabel |-> Absent,
       statementValueLabel |-> "human", statementValue |-> Absent,
       qualifierPropertyLabel |-> "point in time", qualifierValueLabel |-> "1905",
       unitOfMeasureLabel |-> Absent],
      [property |-> AbsentURI, propertyLabel |-> Absent,
       statementValueLabel |-> Absent, statementValue |-> Absent,
       qualifierPropertyLabel |-> Absent, qualifierValueLabel |-> Absent,
       unitOfMeasureLabel |-> Absent] }

\* a solution of the WHERE pattern before the BIND: its shape and ?statementRank
Solutions == [shape : SolutionShapes, statementRank : RawRanks \cup {Absent}]

\* the JSON binding of a solution: ?statementRankLabel is what the BIND gives,
\* and is not bound when ?statementRank is not
Binding(sol) ==
    [property |-> sol.shape.property,
     propertyLabel |-> sol.shape.propertyLabel,
     statementValueLabel |-> sol.shape.statementValueLabel,
     statementValue |-> sol.shape.statementValue,
     qualifierPropertyLabel |-> sol.shape.qualifierPropertyLabel,
     qualifierValueLabel |-> sol.shape.qualifierValueLabel,
     unitOfMeasureLabel |-> sol.shape.unitOfMeasureLabel,
     statementRankLabel |->
        IF sol.statementRank = Absent THEN Absent ELSE RankBIND(sol.statementRank)]

\* a response of the SPARQL request: the status and what r.json() makes of the
\* body (json = FALSE: r.json() raises; has_bindings = FALSE: no
\* data["results"]["bindings"])
StmtBodies(maxlen) ==
    { [json |-> FALSE, has_bindings |-> FALSE, solutions |-> <<>>],
      [json |-> TRUE, has_bindings |-> FALSE, solutions |-> <<>>] }
    \cup {[json |-> TRUE, has_bindings |-> TRUE, solutions |-> s] : s \in SeqsUpTo(Solutions, maxlen)}

StmtResponses == [status : {200, 500}, body : StmtBodies(MaxBindings)]

\* s.split("/") : every "/" separates, empty pieces are kept
RECURSIVE SplitSlash(_, _, _)
SplitSlash(s, cur, acc) ==
    IF s = <<>> THEN Append(acc, cur)
    ELSE IF Head(s) = "/" THEN SplitSlash(Tail(s), <<>>, Append(acc, cur))
    ELSE SplitSlash(Tail(s), Append(cur, Head(s)), acc)

\* b.get(field, {}).get("value")
GetValue(v) == IF v = Absent THEN None ELSE v

\* the row appended for one binding
Row(b) ==
    LET prop_uri == IF b.property = AbsentURI THEN <<>> ELSE b.property
        pieces == SplitSlash(prop_uri, <<>>, <<>>)
    IN  [property_id |-> IF prop_uri # <<>> THEN pieces[Len(pieces)] ELSE <<"None">>,
         property |-> GetValue(b.propertyLabel),
         value |-> IF b.statementValueLabel # Absent THEN b.statementValueLabel
                   ELSE GetValue(b.statementValue),
         qualifier |-> GetValue(b.qualifierPropertyLabel),
         qualifier_value |-> GetValue(b.qualifierValueLabel),
         unit |-> GetValue(b.unitOfMeasureLabel),
         rank |-> GetValue(b.statementRankLabel)]

\* a fetcher that fills in "Unknown" for a binding without a rank label
get_all_statements_default_rank(qid, r) ==
    IF ~r.body.json \/ ~r.body.has_bindings
    THEN [raised |-> TRUE, rows |-> <<>>, item |-> qid]
    ELSE [raised |-> FALSE, item |-> qid,
          rows |-> [k \in 1..Len(r.body.solutions) |->
                      LET row == Row(Binding(r.body.solutions[k]))
                      IN  IF row.rank = None THEN [row EXCEPT !.rank = "Unknown"] ELSE row]]

\* get_all_statements(qid) when the request is answered by r: the entity the
\* query names, whether r.json() or data["results"]["bindings"] raised, the rows
get_all_statements(qid, r) ==
    IF ~r.body.json \/ ~r.body.has_bindings
    THEN [raised |-> TRUE, rows |-> <<>>, item |-> qid]
    ELSE [raised |-> FALSE, item |-> qid,
          rows |-> [k \in 1..Len(r.body.solutions) |-> Row(Binding(r.body.solutions[k]))]]

NotCalled == [raised |-> FALSE, rows |-> <<>>, item |-> None]

InitStmt ==
    /\ s_resp \in StmtResponses
    /\ s_out = [done |-> FALSE, ret |-> NotCalled]

StmtCall ==
    /\ ~s_out.done
    /\ \E qid \in QIDs : s_out' = [done |-> TRUE, ret |-> get_all_statements(qid, s_resp)]
    /\ UNCHANGED s_resp

\* ------------------------------------------------------ Interaction Controller
\* the responses the SPARQL endpoint gives while the page is drawn
FullSolution ==
    [shape |-> [property |-> <<"e", "/", "P">>, propertyLabel |-> "instance of",
                statementValueLabel |-> "human", statementValue |-> "Q5",
                qualifierPropertyLabel |-> "point in time", qualifierValueLabel |-> "1905",
                unitOfMeasureLabel |-> "metre"],
     statementRank |-> "wikibase:NormalRank"]

PageStmtResponses ==
    [status : {200, 500},
     body : { [json |-> FALSE, has_bindings |-> FALSE, solutions |-> <<>>],
              [json |-> TRUE, has_bindings |-> FALSE, solutions |-> <<>>],
              [json |-> TRUE, has_bindings |-> TRUE, solutions |-> <<>>],
              [json |-> TRUE, has_bindings |-> TRUE, solutions |-> <<FullSolution>>] }]

NoResponse == [status |-> 0, body |-> [json |-> FALSE, has_search |-> FALSE, search |-> <<>>]]

\* Python truth value of st.session_state.selected_qid
Truthy(qid) == qid # None /\ qid # ""

\* st.session_state.selected_qid = qid
select_qid(s, qid) == [s EXCEPT !.selected_qid = qid]

\* a go_back that also forgets the results
go_back_clear(s) == [selected_qid |-> None, results |-> <<>>]

\* st.session_state.selected_qid = None
go_back(s) == [s EXCEPT !.selected_qid = None]

\* a store that keeps the selection
StoreResults_keep(s, rr) == IF rr # <<>> THEN [s EXCEPT !.results = rr] ELSE s

\* a store that runs for an empty result list too
StoreResults_always(s, rr) == [selected_qid |-> None, results |-> rr]

\* if results: st.session_state.results = results; selected_qid = None
StoreResults(s, rr) ==
    IF rr # <<>> THEN [selected_qid |-> None, results |-> rr] ELSE s

\* a row of the matches table: the cells written, the argument of its button
ShownRows(res) ==
    [k \in 1..Len(res) |->
        [keyword |-> res[k].keyword, qid |-> res[k].qid,
         wikidata_label |-> res[k].wikidata_label, props_arg |-> res[k].qid]]

\* a page that queries the first row's entity whatever is selected
Page_first_row(s, r) ==
    IF Truthy(s.selected_qid)
    THEN LET ret == get_all_statements(s.results[1].qid, r)
         IN  [screen |-> "DETAIL", shown_rows |-> <<>>, stmt_query |-> ret.item,
              detail |-> IF ret.raised THEN "error" ELSE IF ret.rows # <<>> THEN "table" ELSE "notice",
              props |-> ret.rows]
    ELSE IF s.results # <<>>
    THEN [screen |-> "RESULTS", shown_rows |-> ShownRows(s.results), stmt_query |-> None,
          detail |-> "none", props |-> <<>>]
    ELSE [screen |-> "EMPTY", shown_rows |-> <<>>, stmt_query |-> None,
          detail |-> "none", props |-> <<>>]

\* the two display blocks at the end of the script: the matches table when there
\* are results and nothing is selected, the statements of the selected entity
\* when something is; r answers the SPARQL request
Page(s, r) ==
    IF Truthy(s.selected_qid)
    THEN LET ret == get_all_statements(s.selected_qid, r)
         IN  [screen |-> "DETAIL", shown_rows |-> <<>>, stmt_query |-> ret.item,
              detail |-> IF ret.raised THEN "error" ELSE IF ret.rows # <<>> THEN "table" ELSE "notice",
              props |-> ret.rows]
    ELSE IF s.results # <<>>
    THEN [screen |-> "RESULTS", shown_rows |-> ShownRows(s.results), stmt_query |-> None,
          detail |-> "none", props |-> <<>>]
    ELSE [screen |-> "EMPTY", shown_rows |-> <<>>, stmt_query |-> None,
          detail |-> "none", props |-> <<>>]

Session == [selected_qid |-> selected_qid, results |-> results]

DrawWith(s, r) ==
    LET p == Page(s, r)
    IN  /\ selected_qid' = s.selected_qid
        /\ results' = s.results
        /\ screen' = p.screen
        /\ shown_rows' = p.shown_rows
        /\ stmt_query' = p.stmt_query
        /\ detail' = p.detail
        /\ props' = p.props

\* the SPARQL request is made, and answered, only when an entity is selected
Draw(s) ==
    IF Truthy(s.selected_qid)
    THEN \E r \in PageStmtResponses : DrawWith(s, r)
    ELSE DrawWith(s, CHOOSE r \in PageStmtResponses : TRUE)

RunIdle ==
    /\ pc' = "idle"
    /\ chunks' = <<>>
    /\ all_entities' = <<>>
    /\ counts' = <<>>
    /\ idx' = 0
    /\ run_results' = <<>>
    /\ last_resp' = NoResponse

PureIdle ==
    /\ c_file = <<>> /\ c_size = 1 /\ c_out = [done |-> FALSE, chunks |-> <<>>]
    /\ a_lists = <<>> /\ a_out = [done |-> FALSE, counts |-> <<>>]
    /\ s_resp = [status |-> 200, body |-> [json |-> FALSE, has_bindings |-> FALSE, solutions |-> <<>>]]
    /\ s_out = [done |-> FALSE, ret |-> NotCalled]

AppIdle ==
    /\ selected_qid = None /\ results = <<>>
    /\ pc = "idle" /\ chunks = <<>> /\ all_entities = <<>> /\ counts = <<>> /\ idx = 0
    /\ run_results = <<>> /\ search_calls = <<>> /\ last_resp = NoResponse
    /\ screen = "EMPTY" /\ shown_rows = <<>> /\ stmt_query = None /\ detail = "none"
    /\ props = <<>> /\ warning = "none"
    /\ last_action = [name |-> "load", arg |-> None]
    /\ shown_at_inspect = <<>> /\ screen_at_start = "EMPTY" /\ prev_selected = None

\* chunks = extract_text_from_pdf(uploaded_file), for every file that can be uploaded
RunChunkings == {extract_text_from_pdf(uploaded_file, RunChunkSize) : uploaded_file \in Docs}

\* "Start Processing" clicked with a file uploaded: the script runs from the
\* top, draws the info box and chunks the file
StartProcessing ==
    /\ pc = "idle"
    /\ \E ch \in RunChunkings : chunks' = ch
    /\ pc' = "collect"
    /\ search_calls' = <<>>
    /\ screen' = "PROCESSING" /\ shown_rows' = <<>> /\ stmt_query' = None
    /\ detail' = "none" /\ props' = <<>> /\ warning' = "none"
    /\ last_action' = [name |-> "start", arg |-> None]
    /\ screen_at_start' = screen
    /\ UNCHANGED <<session_vars, all_entities, counts, idx, run_results, last_resp>>
    /\ UNCHANGED <<shown_at_inspect, prev_selected>>
    /\ UNCHANGED <<chunk_vars, agg_vars, stmt_vars>>

\* the keyword collection loop, then either the Counter and the start of the
\* lookups or the "No keywords" warning and the end of the script
CollectKeywords ==
    /\ pc = "collect"
    /\ \E lists \in [1..Len(chunks) -> extract_entities_keybert(<<>>, top_n)] :
         LET ents == CollectEntities(lists)
         IN  IF ents # <<>>
             THEN /\ all_entities' = ents
                  /\ counts' = Counter(ents)
                  /\ idx' = 1
                  /\ pc' = "lookup"
                  /\ chunks' = <<>>
                  /\ UNCHANGED <<session_vars, page_vars, run_results, last_resp>>
             ELSE /\ warning' = "no_keywords"
                  /\ RunIdle
                  /\ Draw(Session)
    /\ UNCHANGED <<search_calls, hist_vars, chunk_vars, agg_vars, stmt_vars>>

\* one iteration of the lookup loop
LookupStep ==
    /\ pc = "lookup"
    /\ idx <= Len(counts)
    /\ \E r \in SearchResponses :
         LET ent == counts[idx].key
             wd_result == search_wikidata(ent, r)
         IN  /\ last_resp' = r
             /\ search_calls' = Append(search_calls, ent)
             /\ run_results' =
                  IF wd_result # NoMatch
                  THEN Append(run_results,
                              [keyword |-> ent, count |-> counts[idx].count,
                               wikidata_label |-> wd_result[2], qid |-> wd_result[1]])
                  ELSE run_results
    /\ idx' = idx + 1
    /\ all_entities' = <<>>
    /\ UNCHANGED <<session_vars, page_vars, hist_vars, pc, chunks, counts>>
    /\ UNCHANGED <<chunk_vars, agg_vars, stmt_vars>>

\* after the loop: the results are stored or the warning is shown, and the rest
\* of the script draws the page
FinishRun ==
    /\ pc = "lookup"
    /\ idx > Len(counts)
    /\ warning' = IF run_results # <<>> THEN "none" ELSE "no_matches"
    /\ Draw(StoreResults(Session, run_results))
    /\ RunIdle
    /\ shown_at_inspect' = IF Truthy(selected_qid') THEN shown_at_inspect ELSE <<>>
    /\ prev_selected' = IF Truthy(selected_qid) /\ ~Truthy(selected_qid')
                        THEN selected_qid ELSE prev_selected
    /\ UNCHANGED <<search_calls, last_action, screen_at_start>>
    /\ UNCHANGED <<chunk_vars, agg_vars, stmt_vars>>

\* "Query props" of row k clicked: the callback, then a script run that draws
InspectEntity ==
    /\ pc = "idle"
    /\ screen = "RESULTS"
    /\ \E k \in 1..Len(shown_rows) :
         /\ last_action' = [name |-> "inspect", arg |-> shown_rows[k].props_arg]
         /\ Draw(select_qid(Session, shown_rows[k].props_arg))
    /\ shown_at_inspect' = shown_rows
    /\ prev_selected' = IF Truthy(selected_qid) THEN selected_qid ELSE prev_selected
    /\ warning' = "none"
    /\ UNCHANGED <<run_vars, screen_at_start, chunk_vars, agg_vars, stmt_vars>>

\* "Back to entity table" clicked: the callback, then a script run that draws
GoBack ==
    /\ pc = "idle"
    /\ screen = "DETAIL"
    /\ last_action' = [name |-> "back", arg |-> None]
    /\ Draw(go_back(Session))
    /\ prev_selected' = IF Truthy(selected_qid) THEN selected_qid ELSE prev_selected
    /\ warning' = "none"
    /\ shown_at_inspect' = <<>>
    /\ UNCHANGED <<run_vars, screen_at_start, chunk_vars, agg_vars, stmt_vars>>

\* any other widget event (a file uploaded or removed): a script run that draws
Rerun ==
    /\ pc = "idle"
    /\ last_action' = [name |-> "rerun", arg |-> None]
    /\ Draw(Session)
    /\ warning' = "none"
    /\ UNCHANGED <<run_vars, shown_at_inspect, screen_at_start, prev_selected>>
    /\ UNCHANGED <<chunk_vars, agg_vars, stmt_vars>>

Init == AppIdle /\ PureIdle

Next ==
    \/ StartProcessing
    \/ CollectKeywords
    \/ LookupStep
    \/ FinishRun
    \/ InspectEntity
    \/ GoBack
    \/ Rerun

Spec == Init /\ [][Next]_vars

\* the functions applied on their own, the application idle
InitChunkOnly ==
    /\ InitChunk /\ AppIdle
    /\ a_lists = <<>> /\ a_out = [done |-> FALSE, counts |-> <<>>]
    /\ s_resp = [status |-> 200, body |-> [json |-> FALSE, has_bindings |-> FALSE, solutions |-> <<>>]]
    /\ s_out = [done |-> FALSE, ret |-> NotCalled]

NextChunk == ChunkCall /\ UNCHANGED <<app_vars, agg_vars, stmt_vars>>

SpecChunk == InitChunkOnly /\ [][NextChunk]_vars

InitAggOnly ==
    /\ InitAgg /\ AppIdle
    /\ c_file = <<>> /\ c_size = 1 /\ c_out = [done |-> FALSE, chunks |-> <<>>]
    /\ s_resp = [status |-> 200, body |-> [json |-> FALSE, has_bindings |-> FALSE, solutions |-> <<>>]]
    /\ s_out = [done |-> FALSE, ret |-> NotCalled]

NextAgg == AggCall /\ UNCHANGED <<app_vars, chunk_vars, stmt_vars>>

SpecAgg == InitAggOnly /\ [][NextAgg]_vars

InitStmtOnly ==
    /\ InitStmt /\ AppIdle
    /\ c_file = <<>> /\ c_size = 1 /\ c_out = [done |-> FALSE, chunks |-> <<>>]
    /\ a_lists = <<>> /\ a_out = [done |-> FALSE, counts |-> <<>>]

NextStmt == StmtCall /\ UNCHANGED <<app_vars, chunk_vars, agg_vars>>

SpecStmt == InitStmtOnly /\ [][NextStmt]_vars

\* ------------------------------------------------------------------ claims
\* the n-th smallest element of a finite set of integers
Nth(S, n) == CHOOSE k \in S : Cardinality({m \in S : m <= k}) = n

\* the whitespace-delimited words of a text, read off the text itself
WordStarts(t) == {k \in 1..Len(t) : t[k] \notin Whitespace /\ (k = 1 \/ t[k - 1] \in Whitespace)}
WordAt(t, k) ==
    SubSeq(t, k, CHOOSE j \in k..Len(t) :
                    /\ \A m \in k..j : t[m] \notin Whitespace
                    /\ (j = Len(t) \/ t[j + 1] \in Whitespace))
Words(t) == [n \in 1..Cardinality(WordStarts(t)) |-> WordAt(t, Nth(WordStarts(t), n))]

Ceil(w, c) == (w + c - 1) \div c

\* C4: for a text of W whitespace-delimited words and a chunk size C >= 1 the
\* chunker returns exactly ceil(W/C) chunks, every chunk holds at most C words,
\* the words of the chunks in order are the words of the text, and an empty
\* text gives no chunk.
ChunkingPartitionsWords ==
    c_out.done =>
        LET text == DocText(c_file)
            out == c_out.chunks
        IN  /\ Len(out) = Ceil(Len(Words(text)), c_size)
            /\ \A k \in 1..Len(out) : Len(Words(out[k])) <= c_size
            /\ Concat([k \in 1..Len(out) |-> Words(out[k])]) = Words(text)
            /\ (text = <<>> => out = <<>>)

\* three or more words cut into a full chunk and a shorter last chunk
ChunkingWitness ==
    /\ c_out.done
    /\ c_size >= 2
    /\ Len(c_out.chunks) >= 2
    /\ Len(Words(c_out.chunks[1])) = c_size
    /\ Len(Words(c_out.chunks[Len(c_out.chunks)])) < c_size
    /\ \E j, k \in 1..Len(Words(DocText(c_file))) :
          Words(DocText(c_file))[j] # Words(DocText(c_file))[k]

Keys(c) == [k \in 1..Len(c) |-> c[k].key]
CountOf(c, P) == IF HasKey(c, P) THEN (CHOOSE r \in Range(c) : r.key = P).count ELSE 0

\* C5: the aggregated count of every phrase is the number of per-chunk lists
\* that contain it, and the keys of the mapping are the union of the lists.
AggregationCountsLists ==
    a_out.done =>
        /\ \A P \in Phrases :
              CountOf(a_out.counts, P) = Cardinality({i \in 1..Len(a_lists) : P \in Range(a_lists[i])})
        /\ DupFree(Keys(a_out.counts))
        /\ Range(Keys(a_out.counts)) = UNION {Range(a_lists[i]) : i \in 1..Len(a_lists)}

\* three lists, a phrase in two of them only, another phrase in all three
AggregationWitness ==
    /\ a_out.done
    /\ Len(a_lists) = 3
    /\ \E P, Q \in Phrases : CountOf(a_out.counts, P) = 2 /\ CountOf(a_out.counts, Q) = 3

RankLabels == {"Preferred", "Normal", "Deprecated", "Unknown"}

\* C8 as amended: every row made from a binding with a rank label carries one of
\* Preferred, Normal, Deprecated, Unknown: the raw ranks Normal, Preferred and
\* Deprecated give the label of the same name and any other raw rank gives
\* Unknown; a binding without the rank field gives a row whose rank is None.
RankLabelOfRow ==
    (s_out.done /\ ~s_out.ret.raised) =>
        /\ Len(s_out.ret.rows) = Len(s_resp.body.solutions)
        /\ \A k \in 1..Len(s_out.ret.rows) :
              LET raw == s_resp.body.solutions[k].statementRank
                  rank == s_out.ret.rows[k].rank
              IN  /\ raw = "wikibase:NormalRank" => rank = "Normal"
                  /\ raw = "wikibase:PreferredRank" => rank = "Preferred"
                  /\ raw = "wikibase:DeprecatedRank" => rank = "Deprecated"
                  /\ raw \in RawRanks \ {"wikibase:NormalRank", "wikibase:PreferredRank",
                                         "wikibase:DeprecatedRank"} => rank = "Unknown"
                  /\ raw # Absent => rank \in RankLabels
                  /\ raw = Absent => rank = None

\* rows fetched from a binding of unrecognised rank and a binding without rank
RankLabelWitness ==
    /\ s_out.done /\ ~s_out.ret.raised
    /\ \E j, k \in 1..Len(s_out.ret.rows) :
          /\ s_resp.body.solutions[j].statementRank = "wikibase:OtherRank"
          /\ s_out.ret.rows[j].rank = "Unknown"
          /\ s_resp.body.solutions[k].statementRank = Absent
          /\ s_out.ret.rows[k].rank = None

\* C8 as stated: every row carries one of the four labels, a binding without
\* the rank field included, which gives Unknown.
RankLabelAlwaysOneOfFour ==
    (s_out.done /\ ~s_out.ret.raised) =>
        \A k \in 1..Len(s_out.ret.rows) :
            LET raw == s_resp.body.solutions[k].statementRank
                rank == s_out.ret.rows[k].rank
            IN  /\ rank \in RankLabels
                /\ raw = "wikibase:NormalRank" => rank = "Normal"
                /\ raw = "wikibase:PreferredRank" => rank = "Preferred"
                /\ raw = "wikibase:DeprecatedRank" => rank = "Deprecated"
                /\ raw \notin {"wikibase:NormalRank", "wikibase:PreferredRank",
                               "wikibase:DeprecatedRank"} => rank = "Unknown"

\* C9: a well-formed response without bindings returns the empty sequence, and
\* every failed query (a status other than 200, a body that does not parse, a
\* body without the bindings list) raises instead of returning rows.
FetchFailurePropagates ==
    s_out.done =>
        /\ (s_resp.status = 200 /\ s_resp.body.json /\ s_resp.body.has_bindings
              /\ s_resp.body.solutions = <<>>)
             => (~s_out.ret.raised /\ s_out.ret.rows = <<>>)
        /\ (s_resp.status # 200 \/ ~s_resp.body.json \/ ~s_resp.body.has_bindings)
             => s_out.ret.raised

\* the screen that a session state gives
ScreenOf(sel, res) ==
    IF Truthy(sel) THEN "DETAIL" ELSE IF res # <<>> THEN "RESULTS" ELSE "EMPTY"

\* C1 as amended: a processing run that resolves at least one keyword ends with
\* the RESULTS screen showing that run's results and the selection cleared,
\* whatever was shown before; a run that finds no keyword or resolves none
\* ends with a warning and leaves the results, the selection and hence the
\* screen (DETAIL included) as they were.
RunEndsByOutcome ==
    [][(pc # "idle" /\ pc' = "idle") =>
          IF pc = "lookup" /\ run_results # <<>>
          THEN /\ screen' = "RESULTS"
               /\ results' = run_results
               /\ shown_rows' = ShownRows(run_results)
               /\ selected_qid' = None
               /\ warning' = "none"
          ELSE /\ results' = results
               /\ selected_qid' = selected_qid
               /\ screen' = ScreenOf(selected_qid, results)
               /\ warning' \in {"no_keywords", "no_matches"}]_vars

\* a run started on a DETAIL screen has ended on RESULTS with new results that
\* do not hold the entity that was selected
RunEndsWitness ==
    /\ pc = "idle"
    /\ last_action.name = "start"
    /\ screen_at_start = "DETAIL"
    /\ screen = "RESULTS"
    /\ warning = "none"
    /\ selected_qid = None
    /\ Truthy(prev_selected)
    /\ prev_selected \notin {results[k].qid : k \in 1..Len(results)}

\* C1 as stated: every processing run, whatever its outcome, ends with the
\* RESULTS screen showing the run's results and with the selection cleared.
RunAlwaysEndsOnResults ==
    [][(pc # "idle" /\ pc' = "idle") =>
          /\ screen' = "RESULTS"
          /\ results' = run_results
          /\ selected_qid' = None]_vars

\* C2: "Query props" of a row of the RESULTS screen gives the DETAIL screen
\* with the row's entity selected, whatever was selected before, and the
\* statement query of that screen names this entity.
InspectSelectsEntity ==
    [][last_action'.name = "inspect" =>
          /\ screen = "RESULTS"
          /\ \E k \in 1..Len(shown_rows) : shown_rows[k].qid = last_action'.arg
          /\ screen' = "DETAIL"
          /\ selected_qid' = last_action'.arg
          /\ stmt_query' = last_action'.arg]_vars

\* an entity inspected after another one had been selected earlier
InspectWitness ==
    /\ last_action.name = "inspect"
    /\ screen = "DETAIL"
    /\ Truthy(prev_selected)
    /\ prev_selected # selected_qid
    /\ stmt_query = selected_qid
    /\ Len(results) = 2
    /\ selected_qid = results[2].qid
    /\ selected_qid # results[1].qid

\* C3: "back" on the DETAIL screen gives the RESULTS screen with the selection
\* cleared; neither select_qid nor go_back changes the stored results, so the
\* table shown after "back" is the one shown when the entity was inspected;
\* no processing is started and no entity search is made.
BackRestoresResults ==
    [][/\ last_action'.name = "back" =>
            /\ screen = "DETAIL"
            /\ screen' = "RESULTS"
            /\ selected_qid' = None
            /\ results' = results
            /\ shown_rows' = shown_at_inspect
            /\ shown_rows' = ShownRows(results)
            /\ pc' = "idle"
            /\ search_calls' = search_calls
       /\ last_action'.name = "inspect" =>
            /\ results' = results
            /\ pc' = "idle"
            /\ search_calls' = search_calls]_vars

\* back on RESULTS with the two rows that were shown before
BackWitness ==
    /\ last_action.name = "back"
    /\ screen = "RESULTS"
    /\ Len(shown_rows) = 2
    /\ Truthy(prev_selected)
    /\ search_calls # <<>>

\* the elements of a sequence in the order of their first appearance
FirstPositions(q) == {k \in 1..Len(q) : \A j \in 1..(k - 1) : q[j] # q[k]}
FirstAppearance(q) == [n \in 1..Cardinality(FirstPositions(q)) |-> q[Nth(FirstPositions(q), n)]]

SearchFailed(r) == r.status # 200 \/ ~r.body.json
SearchEmpty(r) == ~SearchFailed(r) /\ (~r.body.has_search \/ r.body.search = <<>>)

\* C6: a keyword whose search fails (status other than 200, body that does not
\* parse) or has no match gets no row and the loop goes on to the next
\* keyword; a keyword with a match gets the row of the first match's id and
\* label and of its count; at the end every keyword has been looked up and the
\* rows collected are the results stored and shown.
LookupSkipsFailures ==
    [][/\ (pc = "lookup" /\ pc' = "lookup") =>
            LET ent == counts[idx].key
                r == last_resp'
            IN  /\ idx' = idx + 1
                /\ (SearchFailed(r) \/ SearchEmpty(r)) =>
                      /\ run_results' = run_results
                      /\ \A k \in 1..Len(run_results') : run_results'[k].keyword # ent
                /\ ~(SearchFailed(r) \/ SearchEmpty(r)) =>
                      run_results' = Append(run_results,
                                            [keyword |-> ent, count |-> counts[idx].count,
                                             wikidata_label |-> r.body.search[1].label,
                                             qid |-> r.body.search[1].id])
       /\ (pc = "lookup" /\ pc' = "idle") =>
            /\ search_calls = Keys(counts)
            /\ run_results # <<>> => (results' = run_results /\ shown_rows' = ShownRows(run_results))]_vars

\* a run whose first keyword failed and whose second keyword, found in two
\* chunks, was resolved from a response that lists two matches
LookupWitness ==
    /\ pc = "lookup"
    /\ idx = 3
    /\ Len(counts) = 2
    /\ Len(run_results) = 1
    /\ run_results[1].keyword = counts[2].key
    /\ run_results[1].count = 2
    /\ Len(last_resp.body.search) = 2
    /\ last_resp.body.search[1] # last_resp.body.search[2]

\* C7: the resolver is called once per distinct keyword, one call per loop
\* step, in the order of the keywords' first appearance, and not at all when
\* the document gives no keyphrase.
OneLookupPerKeyword ==
    [][/\ (pc = "collect" /\ pc' = "lookup") =>
            /\ Keys(counts') = FirstAppearance(all_entities')
            /\ search_calls' = <<>>
       /\ (pc = "collect" /\ pc' = "idle") => search_calls' = <<>>
       /\ pc' = "lookup" => search_calls' = SubSeq(Keys(counts'), 1, idx' - 1)
       /\ (pc = "lookup" /\ pc' = "lookup") => (counts' = counts /\ Len(search_calls') = Len(search_calls) + 1)
       /\ (pc = "lookup" /\ pc' = "idle") =>
            /\ search_calls' = Keys(counts)
            /\ DupFree(search_calls')]_vars

\* both keywords looked up once each, one of them found in two chunks
OneLookupWitness ==
    /\ pc = "lookup"
    /\ idx > Len(counts)
    /\ Len(search_calls) = 2
    /\ \E k \in 1..Len(counts) : counts[k].count = 2

\* C10: whenever an entity is selected the stored results are not empty and
\* hold a row of that entity, and the DETAIL screen queries such an entity.
SelectionIsAResultRow ==
    /\ Truthy(selected_qid) =>
          /\ results # <<>>
          /\ \E k \in 1..Len(results) : results[k].qid = selected_qid
    /\ screen = "DETAIL" =>
          /\ Truthy(selected_qid)
          /\ stmt_query = selected_qid

\* DETAIL is still shown after a run that was started there and resolved nothing
SelectionWitness ==
    /\ pc = "idle"
    /\ last_action.name = "start"
    /\ screen = "DETAIL"
    /\ warning = "no_matches"
    /\ Len(results) = 2
    /\ selected_qid = results[2].qid

====
